---- MODULE Spec2Model ----
(***************************************************************************)
(* Profile-picture upload pipeline of the user-management backend:         *)
(*   app/routers/profile_picture_routes.py  (upload endpoint)              *)
(*   app/services/minio_service.py          (object store client)          *)
(*   app/utils/image_validator.py           (image validator)              *)
(*                                                                         *)
(* Strings the code takes apart (filenames, extensions) are sequences of   *)
(* one-character strings; content types and messages are sequences of      *)
(* tokens.  A request is handled by one slot r; every call the handler     *)
(* makes on a collaborator is appended to the slot's trace.                *)
(***************************************************************************)
EXTENDS Integers, Sequences, FiniteSets, TLC

(* ------------------------------ bounds --------------------------------- *)
\* number of requests handled in one behaviour
MaxUploads == 2
\* last instant of the wall clock
MaxClock == 1

(* --------------------------- string helpers ---------------------------- *)
\* str.lower() on one character
LowerChar(c) ==
    CASE c = "J" -> "j"
      [] c = "P" -> "p"
      [] c = "G" -> "g"
      [] c = "N" -> "n"
      [] c = "A" -> "a"
      [] OTHER -> c

\* str.lower()
Lower(s) == [i \in 1..Len(s) |-> LowerChar(s[i])]

\* str.endswith(suffix)
EndsWith(s, suf) ==
    /\ Len(suf) <= Len(s)
    /\ \A i \in 1..Len(suf) : s[Len(s) - Len(suf) + i] = suf[i]

\* str.startswith(prefix)
StartsWith(s, pre) ==
    /\ Len(pre) <= Len(s)
    /\ \A i \in 1..Len(pre) : s[i] = pre[i]

\* `c in s`
Contains(s, c) == \E i \in 1..Len(s) : s[i] = c

\* str.find(c) + 1 : position of the first c, 0 when absent
Find(s, c) ==
    IF Contains(s, c)
    THEN CHOOSE i \in 1..Len(s) : s[i] = c /\ \A j \in 1..(i-1) : s[j] # c
    ELSE 0

\* str.rfind(c) + 1 : position of the last c, 0 when absent
RFind(s, c) ==
    IF Contains(s, c)
    THEN CHOOSE i \in 1..Len(s) : s[i] = c /\ \A j \in (i+1)..Len(s) : s[j] # c
    ELSE 0

\* s[i:] in Python terms, with i the 1-based first position kept
From(s, i) == SubSeq(s, i, Len(s))

\* a fixed piece of message text, as one token
Txt(t) == <<t>>

\* ', '.join(list)
RECURSIVE JoinComma(_)
JoinComma(l) ==
    IF Len(l) = 0 THEN << >>
    ELSE IF Len(l) = 1 THEN <<l[1]>>
    ELSE <<l[1], Txt(", ")>> \o JoinComma(Tail(l))

\* os.path.splitext(p)[1] (posixpath): the text from the last dot on, unless
\* that dot comes before the last '/' or only dots precede it in the basename
SplitExt(p) ==
    LET sepIndex == RFind(p, "/")
        dotIndex == RFind(p, ".")
    IN  IF dotIndex > sepIndex
           /\ \E k \in (sepIndex + 1)..(dotIndex - 1) : p[k] # "."
        THEN From(p, dotIndex)
        ELSE << >>

\* the text of an exception of a collaborator: the storage client, the
\* database driver, the stream, the image decoder
BackendText == Txt("backend failure text")

(* --------------------------- image validator --------------------------- *)
DotJpg  == <<".", "j", "p", "g">>
DotJpeg == <<".", "j", "p", "e", "g">>
DotPng  == <<".", "p", "n", "g">>
DotGif  == <<".", "g", "i", "f">>

\* ALLOWED_FORMATS with ".jpeg" left out
AllowedFormatsNoJpeg ==
    [JPEG |-> <<DotJpg>>, PNG |-> <<DotPng>>, GIF |-> <<DotGif>>]

\* ALLOWED_FORMATS
ALLOWED_FORMATS ==
    [JPEG |-> <<DotJpg, DotJpeg>>, PNG |-> <<DotPng>>, GIF |-> <<DotGif>>]

\* ALLOWED_EXTENSIONS: the flattened list, in dictionary order
ALLOWED_EXTENSIONS ==
    ALLOWED_FORMATS.JPEG \o ALLOWED_FORMATS.PNG \o ALLOWED_FORMATS.GIF

SeqToSet(l) == {l[i] : i \in 1..Len(l)}

MAX_IMAGE_WIDTH == 5000
MAX_IMAGE_HEIGHT == 5000
MIN_IMAGE_WIDTH == 10
MIN_IMAGE_HEIGHT == 10

\* IsImageType testing only that a content type is there
IsImageTypeAnyMedia(ct) == Len(ct) > 0

\* content_type.startswith("image/"), a content type being <<"image/", subtype>>
IsImageType(ct) == StartsWith(ct, <<"image/">>)

\* file_ext of validate_image_file: "." + text after the last dot, lower-cased
ValidatorExt(filename) ==
    IF Contains(filename, ".")
    THEN <<".">> \o Lower(From(filename, RFind(filename, ".") + 1))
    ELSE << >>

(* ------------------------------ inputs --------------------------------- *)
\* user ids (UUIDs) that have a record in the database, and one that has none
ExistingUsers == {1, 2}
TargetIds == {1, 2, 3}

\* str(uuid)
StrOfId(u) == <<"uuid-1", "uuid-2", "uuid-3">>[u]

\* user.email of the stored record
EmailOf(u) == <<"alice@example.com", "bob@example.com", "">>[u]

\* the roles require_role admits to the endpoint
Roles == {"AUTHENTICATED", "ADMIN", "MANAGER"}

\* the `sub` claim of the caller's token
Subjects == {"uuid-1", "alice@example.com", "uuid-2", "mallory@example.com"}

\* the callers the model sends: an ordinary caller with every subject, and
\* the two elevated roles with a subject that matches no user
Callers ==
    [role : {"AUTHENTICATED"}, user_id : Subjects]
    \cup [role : {"ADMIN", "MANAGER"}, user_id : {"mallory@example.com"}]

ImageJpeg == <<"image/", "jpeg">>
TextPlain == <<"text/", "plain">>
NoContentType == << >>
ContentTypes == {ImageJpeg, TextPlain, NoContentType}

NoFilename == << >>
Filenames ==
    { <<"a", ".", "j", "p", "g">>,
      <<"a", ".", "P", "N", "G">>,
      <<".", "j", "p", "g">>,
      <<"a", ".", "t", "x", "t">>,
      <<"a", "j", "p", "g">>,
      NoFilename }

\* byte payloads: the empty payload, the 19 bytes b"test image content", a
\* decodable JPEG, and payloads of exactly and of one more than 5 MiB
Payloads == {"empty", "text19", "jpeg", "fivemib", "oversize"}

\* 5 * 1024 * 1024
MAX_UPLOAD_BYTES == 5 * 1024 * 1024

\* image files of several formats and sizes, named after what they hold
ImagePayloads ==
    {"jpeg", "png", "gif", "bmp", "jpeg_5000x5000", "png_10x10",
     "jpeg_5001x100", "jpeg_100x5001", "png_9x100", "gif_100x9"}

\* len(file_data)
SizeOf(d) ==
    CASE d = "empty"    -> 0
      [] d = "text19"   -> 19
      [] d = "fivemib"  -> MAX_UPLOAD_BYTES
      [] d = "oversize" -> MAX_UPLOAD_BYTES + 1
      [] d \in ImagePayloads -> 2048
      [] OTHER          -> 0

\* an image as Pillow hands it out: format, size and mode
Img(format, width, height) ==
    [ok |-> TRUE, format |-> format, width |-> width, height |-> height, mode |-> "RGB"]

\* Image.open(io.BytesIO(content)) with verify(): the decoded image, or the
\* UnidentifiedImageError Pillow raises for bytes that are no image
Decode(d) ==
    CASE d = "jpeg"           -> Img("JPEG", 100, 100)
      [] d = "png"            -> Img("PNG", 100, 100)
      [] d = "gif"            -> Img("GIF", 100, 100)
      [] d = "bmp"            -> Img("BMP", 100, 100)
      [] d = "jpeg_5000x5000" -> Img("JPEG", 5000, 5000)
      [] d = "png_10x10"      -> Img("PNG", 10, 10)
      [] d = "jpeg_5001x100"  -> Img("JPEG", 5001, 100)
      [] d = "jpeg_100x5001"  -> Img("JPEG", 100, 5001)
      [] d = "png_9x100"      -> Img("PNG", 9, 100)
      [] d = "gif_100x9"      -> Img("GIF", 100, 9)
      [] OTHER -> [ok |-> FALSE, format |-> "", width |-> 0, height |-> 0, mode |-> ""]

NoMetadata == [format |-> "", width |-> 0, height |-> 0, mode |-> ""]

Reject(reason) == [valid |-> FALSE, reason |-> reason, metadata |-> NoMetadata]

\* the mock Image of lines 21-33, bound when the module is imported under
\* pytest or with TEST_MODE=true: open() yields format TEST, 100 x 100
DecodeMock(d) == Img("TEST", 100, 100)

\* validate_image_file (image_validator.py lines 85-151), img being what
\* Image.open makes of the content
ValidateImageFileWith(file, img) ==
    LET file_ext == ValidatorExt(file.filename)
    IN  IF file.filename = << >> THEN Reject(<<Txt("Missing filename")>>)
        ELSE IF file.content_type = << >> THEN Reject(<<Txt("Missing content type")>>)
        ELSE IF ~IsImageType(file.content_type)
        THEN Reject(<<Txt("Invalid content type: "), file.content_type,
                      Txt(". Expected image format.")>>)
        ELSE IF file_ext \notin SeqToSet(ALLOWED_EXTENSIONS)
        THEN Reject(<<Txt("Invalid file extension: "), file_ext,
                      Txt(". Allowed extensions are: ")>>
                        \o JoinComma(ALLOWED_EXTENSIONS))
        ELSE IF ~img.ok THEN Reject(<<Txt("The file is not a valid image")>>)
        ELSE IF img.width > MAX_IMAGE_WIDTH \/ img.height > MAX_IMAGE_HEIGHT
        THEN Reject(<<Txt("Image dimensions too large. Maximum allowed: "),
                      Txt(ToString(MAX_IMAGE_WIDTH)), Txt("x"),
                      Txt(ToString(MAX_IMAGE_HEIGHT)), Txt(" pixels")>>)
        ELSE IF img.width < MIN_IMAGE_WIDTH \/ img.height < MIN_IMAGE_HEIGHT
        THEN Reject(<<Txt("Image dimensions too small. Minimum allowed: "),
                      Txt(ToString(MIN_IMAGE_WIDTH)), Txt("x"),
                      Txt(ToString(MIN_IMAGE_HEIGHT)), Txt(" pixels")>>)
        ELSE IF img.format \notin DOMAIN ALLOWED_FORMATS
        THEN Reject(<<Txt("Unsupported image format: "), Txt(img.format)>>)
        ELSE IF file_ext \notin SeqToSet(ALLOWED_FORMATS[img.format])
        THEN Reject(<<Txt("File extension "), file_ext,
                      Txt(" does not match the actual image format "),
                      Txt(img.format)>>)
        ELSE [valid |-> TRUE, reason |-> << >>,
              metadata |-> [format |-> img.format, width |-> img.width,
                            height |-> img.height, mode |-> img.mode]]

\* validate_image_file with Pillow's Image
ValidateImageFile(file) == ValidateImageFileWith(file, Decode(file.data))

\* lines 87-100: the checks made before the stream is touched
RejectedBeforeRead(file) ==
    \/ file.filename = << >>
    \/ file.content_type = << >>
    \/ ~IsImageType(file.content_type)
    \/ ValidatorExt(file.filename) \notin SeqToSet(ALLOWED_EXTENSIONS)

\* what can go wrong with the stream and the decoder: nothing, file.read()
\* raises, Image.open or verify raises something else than
\* UnidentifiedImageError
ValidatorFaults == {"none", "read_raises", "decode_raises"}

\* validate_image_file with the except clauses of lines 145-151
ValidateImageFileFaulty(file, img, fault) ==
    IF RejectedBeforeRead(file) \/ fault = "none"
    THEN ValidateImageFileWith(file, img)
    ELSE IF fault = "read_raises"
    THEN Reject(<<Txt("Failed to validate image due to an internal error")>>)
    ELSE Reject(<<Txt("Image validation error: "), BackendText>>)

\* the ambient process state the module looks at: whether pytest is among
\* the loaded modules (IN_PYTEST, line 16) and whether the environment has
\* TEST_MODE=true
Ambients == [in_pytest : BOOLEAN, test_mode : BOOLEAN]

\* lines 19 and 174: os.environ.get('TEST_MODE', '').lower() == 'true' or IN_PYTEST
TestMode(ambient) == ambient.test_mode \/ ambient.in_pytest

\* Image.open as bound by lines 19-49
ImageOpen(ambient, d) == IF TestMode(ambient) THEN DecodeMock(d) ELSE Decode(d)

\* lines 202-207: the mock metadata
MockMetadata == [format |-> "TEST", width |-> 100, height |-> 100, mode |-> "RGB"]

\* what validate_image_and_raise ends in: metadata returned, or HTTPException
Metadata(m) == [status |-> 0, detail |-> << >>, metadata |-> m]
BadRequest(detail) == [status |-> 400, detail |-> detail, metadata |-> NoMetadata]

\* validate_image_and_raise (lines 159-219)
ValidateImageAndRaise(file, fault, ambient) ==
    LET v == ValidateImageFileFaulty(file, ImageOpen(ambient, file.data), fault) IN
    IF TestMode(ambient)
    THEN IF fault = "read_raises" THEN Metadata(MockMetadata)
         ELSE IF file.data = "text19" \/ SizeOf(file.data) < 100
         THEN Metadata(MockMetadata)
         ELSE IF v.valid THEN Metadata(v.metadata)
         ELSE Metadata(MockMetadata)
    ELSE IF ~v.valid THEN BadRequest(v.reason)
         ELSE Metadata(v.metadata)

\* the stream cursor where the try block of lines 85-151 leaves it: untouched
\* by the early returns, 0 after the seek of line 103 when read raises, at
\* the end of the content after the read, 0 after the seek of line 140
BodyCursor(file, img, fault, pos) ==
    IF RejectedBeforeRead(file) THEN pos
    ELSE IF fault = "read_raises" THEN 0
    ELSE IF ValidateImageFileFaulty(file, img, fault).valid THEN 0
    ELSE SizeOf(file.data)

\* FinallySeek with the finally block left out
FinallyNoSeek(cursor) == cursor

\* lines 152-157: finally: await file.seek(0)
FinallySeek(cursor) == 0

\* the stream cursor when validate_image_file returns
ValidatorCursor(file, img, fault, pos) == FinallySeek(BodyCursor(file, img, fault, pos))

BaseFile ==
    [filename |-> <<"a", ".", "j", "p", "g">>, content_type |-> ImageJpeg,
     data |-> "text19"]

\* files with more than one fault
FaultyFiles ==
    [filename : {<<"a", ".", "t", "x", "t">>, NoFilename},
     content_type : {TextPlain, NoContentType},
     data : {"empty", "oversize"}]

\* the files the model sends: the base file with each field varied in turn,
\* and files with more than one fault
Files ==
    [filename : Filenames, content_type : {ImageJpeg}, data : {"text19"}]
    \cup [filename : {BaseFile.filename}, content_type : ContentTypes,
          data : {"text19"}]
    \cup [filename : {BaseFile.filename}, content_type : {ImageJpeg},
          data : Payloads]
    \cup FaultyFiles

SelfCaller == [role |-> "AUTHENTICATED", user_id |-> "uuid-1"]

\* the requests the model sends: every caller with the base file, every file
\* with a caller allowed to send it, and faulty files sent by the same caller
\* for another user and for a user that does not exist
Requests ==
    [target : TargetIds, caller : Callers, file : {BaseFile}]
    \cup [target : {1}, caller : {SelfCaller}, file : Files]
    \cup [target : TargetIds, caller : {SelfCaller},
          file : {f \in FaultyFiles : f.data = "oversize"}]

\* the requests sent while the user lookup fails: the lookup raises before
\* the handler has looked at the caller or at the file
PlainRequests == [target : TargetIds, caller : {SelfCaller}, file : {BaseFile}]

\* the requests sent to a server that handles two at once: two files for
\* one user, sent by that user, and one file for another user, sent by that
\* other user
RacingRequests ==
    [target : {1}, caller : {SelfCaller},
     file : [filename : {BaseFile.filename}, content_type : {ImageJpeg},
             data : {"text19", "jpeg"}]]
    \cup [target : {2}, caller : {[role |-> "AUTHENTICATED", user_id |-> "uuid-2"]},
          file : {BaseFile}]

\* the requests sent to a server running the handler invocations s
Arriving(s) == IF Cardinality(s) = 1 THEN Requests ELSE RacingRequests

(* ------------------------- upload endpoint ----------------------------- *)
\* GetById with the lookup's result never tested
GetByIdAlwaysFound(target) == TRUE

\* lines 54-55: whether UserService.get_by_id finds a record
GetById(target) == target \in ExistingUsers

\* Authorized without the comparison against the e-mail address
AuthorizedNoEmail(caller, target) ==
    \/ caller.role \in {"ADMIN", "MANAGER"}
    \/ caller.user_id = StrOfId(target)

\* lines 75-77: the condition under which the endpoint raises 403, negated
Authorized(caller, target) ==
    \/ caller.role \in {"ADMIN", "MANAGER"}
    \/ caller.user_id = EmailOf(target)
    \/ caller.user_id = StrOfId(target)

\* valid_extensions of the endpoint (line 114)
RouterValidExtensions == <<DotJpg, DotJpeg, DotPng, DotGif>>

\* line 116: any(filename.lower().endswith(ext) for ext in valid_extensions)
RouterExtensionOk(filename) ==
    \E i \in 1..Len(RouterValidExtensions) :
        EndsWith(Lower(filename), RouterValidExtensions[i])

\* line 115: file_ext, the lower-cased text after the first dot
RouterFileExt(filename) ==
    IF Contains(filename, ".")
    THEN From(Lower(filename), Find(Lower(filename), ".") + 1)
    ELSE << >>

\* an HTTPException
Http(status, cause, detail) ==
    [status |-> status, cause |-> cause, detail |-> detail]

NotFoundError ==
    Http(404, "user_not_found",
         <<Txt("User not found. Please verify the user exists and try again.")>>)

ForbiddenError ==
    Http(403, "forbidden", <<Txt("You can only update your own profile picture")>>)

MissingContentTypeError ==
    Http(400, "missing_content_type",
         <<Txt("Missing content type. Please ensure you're uploading a valid image file.")>>)

InvalidContentTypeError(ct) ==
    Http(400, "bad_content_type",
         <<Txt("Invalid file type: "), ct,
           Txt(". Only image files are allowed (jpg, jpeg, png, gif).")>>)

MissingFilenameError ==
    Http(400, "missing_filename",
         <<Txt("Missing filename. Please ensure your image file has a name.")>>)

\* RouterExtensionError without the list of allowed extensions
RouterExtensionErrorBare(filename) ==
    Http(400, "bad_extension",
         <<Txt("Invalid file extension: ."), RouterFileExt(filename)>>)

RouterExtensionError(filename) ==
    Http(400, "bad_extension",
         <<Txt("Invalid file extension: ."), RouterFileExt(filename),
           Txt(". Allowed extensions are: ")>> \o JoinComma(RouterValidExtensions))

\* no error: the request goes on
Pass == Http(0, "", << >>)

\* an exception that is no HTTPException leaves the handler: the handler has
\* produced no response (status -1)
Escaped == Http(-1, "unhandled", <<BackendText>>)

\* lines 54-121 of upload_profile_picture: the user lookup, the authorization
\* and the checks of the file's shape, in the order of the code.  The result
\* is the error raised (Pass when none) and the steps taken up to it.
RouterChecks(q) ==
    IF ~GetById(q.target)
    THEN [err |-> NotFoundError, trace |-> <<"get_by_id">>]
    ELSE IF ~Authorized(q.caller, q.target)
    THEN [err |-> ForbiddenError, trace |-> <<"get_by_id", "authorize">>]
    ELSE IF q.file.content_type = NoContentType
    THEN [err |-> MissingContentTypeError,
          trace |-> <<"get_by_id", "authorize", "seek", "check_content_type">>]
    ELSE IF ~IsImageType(q.file.content_type)
    THEN [err |-> InvalidContentTypeError(q.file.content_type),
          trace |-> <<"get_by_id", "authorize", "seek", "check_content_type">>]
    ELSE IF q.file.filename = NoFilename
    THEN [err |-> MissingFilenameError,
          trace |-> <<"get_by_id", "authorize", "seek", "check_content_type",
                      "check_filename">>]
    ELSE IF ~RouterExtensionOk(q.file.filename)
    THEN [err |-> RouterExtensionError(q.file.filename),
          trace |-> <<"get_by_id", "authorize", "seek", "check_content_type",
                      "check_filename", "check_extension">>]
    ELSE [err |-> Pass,
          trace |-> <<"get_by_id", "authorize", "seek", "check_content_type",
                      "check_filename", "check_extension">>]

(* ------------------------ object store client -------------------------- *)
\* Strftime with the format "%Y%m%d": every instant the model reaches lies in
\* one day
StrftimeDateOnly(now) == 0

\* datetime.now().strftime("%Y%m%d_%H%M%S"): the clock counts whole seconds,
\* which is all the timestamp keeps
Strftime(now) == now

\* line 90: f"profile_pictures/{user_id}/archive/profile_{timestamp}{ext}"
ArchiveName(user_id, timestamp, ext) ==
    [root |-> "profile_pictures", user |-> user_id, dir |-> "archive",
     stem |-> "profile_", ts |-> timestamp, ext |-> ext]

\* ActiveName without the user's directory
ActiveNameShared(user_id, ext) ==
    [root |-> "profile_pictures", user |-> "", dir |-> "",
     stem |-> "profile", ts |-> -1, ext |-> ext]

\* line 94: f"profile_pictures/{user_id}/profile{ext}"
ActiveName(user_id, ext) ==
    [root |-> "profile_pictures", user |-> user_id, dir |-> "",
     stem |-> "profile", ts |-> -1, ext |-> ext]

\* line 86: os.path.splitext(file.filename)[1].lower()
ServiceExtension(filename) == Lower(SplitExt(filename))

\* valid_extensions of the service (line 123)
ServiceValidExtensions == <<DotJpg, DotJpeg, DotPng, DotGif>>

\* line 195: f"{base_url}/profiles/{user_id}/picture"
ProfileUrl(user_id) == <<"https://example.com", "/profiles/", user_id, "/picture">>

\* str(e) of an HTTPException: "<status>: <detail>"
StrOfHttp(e) == <<Txt(ToString(e.status)), Txt(": ")>> \o e.detail

\* lines 206-211: `except Exception` of the service's upload block, which
\* also catches the HTTPExceptions raised inside the block
WrapProcessing(cause, text) ==
    Http(500, cause, <<Txt("Error processing file upload: ")>> \o text)

\* lines 200-205: `except S3Error` of the service's upload block
WrapS3(cause, text) ==
    Http(500, cause, <<Txt("Failed to upload file to storage: ")>> \o text)

SizeLimitError == Http(400, "oversize", <<Txt("File size exceeds the "), Txt("5MB"), Txt(" limit")>>)

ServiceExtensionError ==
    Http(400, "service_bad_extension",
         <<Txt("File type not allowed. Allowed types: ")>>
             \o JoinComma(ServiceValidExtensions))

EmptyFileError ==
    Http(400, "empty",
         <<Txt("Empty file received. Please select a valid image file.")>>)

\* ServiceChecks without the test for an empty payload
ServiceChecksNoEmpty(ext, data) ==
    IF SizeOf(data) > MAX_UPLOAD_BYTES THEN SizeLimitError
    ELSE IF ext \notin SeqToSet(ServiceValidExtensions) THEN ServiceExtensionError
    ELSE Pass

\* lines 114-145: the checks the service makes on the bytes it has read, in
\* the order of the code; the HTTPException raised, Pass when none
ServiceChecks(ext, data) ==
    IF SizeOf(data) > MAX_UPLOAD_BYTES THEN SizeLimitError
    ELSE IF ext \notin SeqToSet(ServiceValidExtensions) THEN ServiceExtensionError
    ELSE IF SizeOf(data) = 0 THEN EmptyFileError
    ELSE Pass

\* what leaves the service's upload block when a check raises e
ServiceCheckOutcome(e) ==
    IF e.status = 0 THEN Pass ELSE WrapProcessing(e.cause, StrOfHttp(e))

\* RouterStoreError passing the exception's message on
RouterStoreErrorWithMessage(cause) ==
    Http(500, cause, <<Txt("Failed to store profile picture: "), BackendText>>)

\* lines 130-138 of the endpoint: any other exception leaving the service
RouterStoreError(cause) ==
    Http(500, cause,
         <<Txt("Failed to store profile picture. Please try again or contact support if the problem persists.")>>)

(* ------------------------ verification tokens ------------------------- *)
\* Time is counted in hours here.  A str is what json and datetime make of
\* it: plain text, or the ISO-8601 text of a local time with or without a
\* UTC offset.
PlainStr(t) == [kind |-> "text", text |-> t, local |-> 0, zone |-> FALSE, offset |-> 0]
IsoStr(local, zone, offset) ==
    [kind |-> "iso", text |-> "", local |-> local, zone |-> zone, offset |-> offset]

\* a datetime: local time, and the UTC offset when it is aware
Datetime(t, aware, offset) == [t |-> t, aware |-> aware, offset |-> offset]

\* datetime.now(timezone.utc)
UtcNow(now) == Datetime(now, TRUE, 0)

\* datetime.isoformat()
Isoformat(dt) == IsoStr(dt.t, dt.aware, dt.offset)

\* datetime.fromisoformat(s) for a str s: the datetime, or ValueError
FromIsoformat(s) ==
    IF s.kind = "iso"
    THEN [raised |-> "", dt |-> Datetime(s.local, s.zone, s.offset)]
    ELSE [raised |-> "ValueError", dt |-> Datetime(0, FALSE, 0)]

\* a > b on datetimes: an aware and a naive one do not compare
After(a, b) ==
    IF a.aware # b.aware
    THEN [raised |-> "TypeError", after |-> FALSE]
    ELSE [raised |-> "", after |-> a.t - a.offset > b.t - b.offset]

\* the values json.loads yields inside an object, None included
JString(s) == [type |-> "str", s |-> s, n |-> 0]
JInt(n) == [type |-> "int", s |-> PlainStr(""), n |-> n]
None == [type |-> "null", s |-> PlainStr(""), n |-> 0]

\* `not v`
Falsy(v) ==
    \/ v.type = "null"
    \/ v.type = "str" /\ v.s = PlainStr("")
    \/ v.type = "int" /\ v.n = 0

\* the values json.loads yields at the top: a dict, or something else
JObject(fields) == [type |-> "dict", fields |-> fields]
JArray == [type |-> "list", fields |-> << >>]
JNumber == [type |-> "int", fields |-> << >>]

\* dict.get(key)
Get(d, key) == IF key \in DOMAIN d.fields THEN d.fields[key] ELSE None

\* json.dumps(value).encode(): the bytes of a JSON text
Dumps(value) == [utf8 |-> TRUE, json |-> TRUE, value |-> value]
\* bytes that are text and no JSON, and bytes that are no UTF-8 text
NotJson == [utf8 |-> TRUE, json |-> FALSE, value |-> JNumber]
NotUtf8 == [utf8 |-> FALSE, json |-> FALSE, value |-> JNumber]

\* base64.urlsafe_b64encode(bytes).decode()
B64Encode(bytes) == [padded |-> TRUE, bytes |-> bytes]
\* a string whose length is no base64 length, such as "not_a_valid_token"
NotBase64 == [padded |-> FALSE, bytes |-> NotJson]

\* lines 56-85 of security.py: generate_verification_token(expiration_hours),
\* called at the hour `now` with secrets.token_urlsafe(16) yielding `secret`
GenerateVerificationToken(expiration_hours, now, secret) ==
    LET expires_at == Datetime(now + expiration_hours, TRUE, 0)
        token_data == JObject(("token" :> JString(PlainStr(secret)))
                              @@ ("expires" :> JString(Isoformat(expires_at))))
    IN  B64Encode(Dumps(token_data))

\* what a call of verify_token_expiration ends in: a returned pair, or an
\* exception leaving it
Returned(is_valid, extracted) == [raised |-> "", valid |-> is_valid, token |-> extracted]
Raised(exception) == [raised |-> exception, valid |-> FALSE, token |-> None]

\* the except clause of lines 118-119: (ValueError, KeyError,
\* json.JSONDecodeError, binascii.Error) -> (False, "")
Caught == Returned(FALSE, JString(PlainStr("")))

\* lines 87-119 of security.py: verify_token_expiration(token) at the hour now
VerifyTokenExpiration(token, now) ==
    IF ~token.padded THEN Caught                      \* binascii.Error
    ELSE IF ~token.bytes.utf8 THEN Caught             \* UnicodeDecodeError
    ELSE IF ~token.bytes.json THEN Caught             \* json.JSONDecodeError
    ELSE
    LET decoded_data == token.bytes.value IN
    IF decoded_data.type # "dict" THEN Raised("AttributeError")
    ELSE
    LET random_token == Get(decoded_data, "token")
        expiry_str == Get(decoded_data, "expires")
    IN
    IF Falsy(random_token) \/ Falsy(expiry_str)
    THEN Returned(FALSE, JString(PlainStr("")))
    ELSE IF expiry_str.type # "str" THEN Raised("TypeError")
    ELSE
    LET parsed == FromIsoformat(expiry_str.s) IN
    IF parsed.raised # "" THEN Caught                 \* ValueError
    ELSE
    LET expired == After(UtcNow(now), parsed.dt) IN
    IF expired.raised # "" THEN Raised(expired.raised)
    ELSE IF expired.after THEN Returned(FALSE, random_token)
    ELSE Returned(TRUE, random_token)

(* ------------------------------ state ---------------------------------- *)
VARIABLES
    slots,     \* the handler invocations the server runs at once
    req,       \* per slot: the request it handles and how far it has got
    bucket,    \* whether the configured bucket exists in the object store
    objects,   \* the bucket's content: object name -> payload
    db,        \* user id -> profile_picture_url of the stored record
    clock,     \* the wall clock, in seconds
    started,   \* number of requests received so far
    uploads,   \* the uploads answered 200 so far, oldest first
    probe      \* a call of one of the utility functions: arguments and result

vars == <<slots, req, bucket, objects, db, clock, started, uploads, probe>>

\* no utility function is being called
NoProbe == [pc |-> "off"]

NoUrl == << >>
NoName == [root |-> "", user |-> "", dir |-> "", stem |-> "", ts |-> -1, ext |-> << >>]
NoRequest ==
    [target |-> 0, caller |-> [role |-> "", user_id |-> ""],
     file |-> [filename |-> NoFilename, content_type |-> NoContentType, data |-> "empty"]]

Idle ==
    [pc |-> "idle", q |-> NoRequest, status |-> 0, cause |-> "", detail |-> << >>,
     trace |-> << >>, ext |-> << >>, now |-> -1, archive_name |-> NoName,
     active_name |-> NoName, url |-> NoUrl, pos |-> 0, reads |-> 0,
     before |-> [bucket |-> FALSE, objects |-> << >>, db |-> << >>]]

\* the outcomes of a call on a collaborator: it returns, it raises the
\* storage client's S3Error, or it raises some other exception
Outcomes == {"ok", "S3Error", "Error"}

\* Spec runs one handler invocation at a time: a request is answered before
\* the next one arrives.
Init ==
    /\ slots = {1}
    /\ req = [r \in 1..2 |-> Idle]
    /\ bucket \in BOOLEAN
    /\ objects = << >>
    /\ db = [u \in ExistingUsers |-> NoUrl]
    /\ clock = 0
    /\ started = 0
    /\ uploads = << >>
    /\ probe = NoProbe

\* the handler ends with the HTTPException e
Finish(r, e, steps) ==
    req' = [req EXCEPT ![r].pc = "done", ![r].status = e.status,
                       ![r].cause = e.cause, ![r].detail = e.detail,
                       ![r].trace = req[r].trace \o steps]

\* the handler goes on to the step `next`
Goto(r, next, steps) ==
    req' = [req EXCEPT ![r].pc = next, ![r].trace = req[r].trace \o steps]

(* ------------------------------ actions -------------------------------- *)
\* A request arrives; the endpoint looks the user up, authorizes the caller
\* and checks the file's shape (routes lines 54-121).  The lookup at line 54
\* stands before the handler's `try`: when it raises, the exception leaves
\* the handler.
Begin(r) ==
    /\ r \in slots
    /\ \/ req[r].pc = "idle"
       \/ req[r].pc = "done" /\ Cardinality(slots) = 1
    /\ started < MaxUploads
    /\ \E lookup \in {"ok", "Error"} :
       \E q \in (IF lookup = "ok" THEN Arriving(slots) ELSE PlainRequests) :
        LET c == IF lookup = "ok" THEN RouterChecks(q)
                 ELSE [err |-> Escaped, trace |-> <<"get_by_id">>]
        IN
        req' = [req EXCEPT ![r] =
                  [Idle EXCEPT
                     !.q = q,
                     !.pc = IF c.err.status = 0 THEN "bucket_exists" ELSE "done",
                     !.status = c.err.status, !.cause = c.err.cause,
                     !.detail = c.err.detail, !.trace = c.trace,
                     !.before = [bucket |-> bucket, objects |-> objects, db |-> db]]]
    /\ started' = started + 1
    /\ UNCHANGED <<probe, uploads, slots, bucket, objects, db, clock>>

\* lines 86-94 of the service: the extension, the timestamp and the two names
Named(rec, now) ==
    LET ext == ServiceExtension(rec.q.file.filename)
        uid == StrOfId(rec.q.target)
    IN  [rec EXCEPT !.ext = ext, !.now = now,
                    !.archive_name = ArchiveName(uid, Strftime(now), ext),
                    !.active_name = ActiveName(uid, ext)]

\* service line 69: client.bucket_exists(bucket_name)
BucketExists(r) ==
    /\ req[r].pc = "bucket_exists"
    /\ \E o \in Outcomes :
        CASE o = "ok" ->
               req' = [req EXCEPT ![r] =
                  [Named(req[r], clock) EXCEPT
                     !.pc = IF bucket THEN "read" ELSE "make_bucket",
                     !.trace = req[r].trace \o <<"bucket_exists">>]]
          [] o = "S3Error" ->
               Finish(r, Http(500, "storage_init",
                              <<Txt("Failed to initialize storage: "), BackendText>>),
                      <<"bucket_exists">>)
          [] OTHER ->
               Finish(r, RouterStoreError("storage_unexpected"), <<"bucket_exists">>)
    /\ UNCHANGED <<probe, uploads, slots, bucket, objects, db, clock, started>>

\* service line 71: client.make_bucket(bucket_name); the store refuses to
\* create a bucket that exists
MakeBucket(r) ==
    /\ req[r].pc = "make_bucket"
    /\ \E o \in Outcomes :
        CASE o = "ok" /\ ~bucket ->
               /\ bucket' = TRUE
               /\ req' = [req EXCEPT ![r] =
                    [Named(req[r], clock) EXCEPT
                       !.pc = "read",
                       !.trace = req[r].trace \o <<"make_bucket">>]]
          [] o = "Error" ->
               /\ Finish(r, RouterStoreError("storage_unexpected"), <<"make_bucket">>)
               /\ UNCHANGED bucket
          [] OTHER ->
               /\ Finish(r, Http(500, "storage_init",
                                 <<Txt("Failed to initialize storage: "), BackendText>>),
                         <<"make_bucket">>)
               /\ UNCHANGED bucket
    /\ UNCHANGED <<probe, uploads, slots, objects, db, clock, started>>

\* the stream cursor after file.read() (service line 103): the end of the
\* content; nothing seeks on the stream after it
AfterRead(d) == SizeOf(d)

\* service lines 99-152: read the payload and check size, extension, emptiness
ReadAndCheck(r) ==
    /\ req[r].pc = "read"
    /\ LET e == ServiceCheckOutcome(ServiceChecks(req[r].ext, req[r].q.file.data))
           x == [req[r] EXCEPT !.pos = AfterRead(req[r].q.file.data),
                               !.reads = req[r].reads + 1,
                               !.trace = req[r].trace \o <<"seek", "read">>]
       IN  IF e.status = 0
           THEN req' = [req EXCEPT ![r] = [x EXCEPT !.pc = "put_archive"]]
           ELSE req' = [req EXCEPT ![r] =
                          [x EXCEPT !.pc = "done", !.status = e.status,
                                    !.cause = e.cause, !.detail = e.detail]]
    /\ UNCHANGED <<probe, uploads, slots, bucket, objects, db, clock, started>>

\* lines 163-168 / 183-188: the error raised when a put_object fails, as it
\* leaves the service through the outer `except Exception`
PutError(cause, text) ==
    WrapProcessing(cause, StrOfHttp(Http(500, cause, <<Txt(text), BackendText>>)))

\* PutArchive with a failed write logged and the upload going on
PutArchiveSwallow(r) ==
    /\ req[r].pc = "put_archive"
    /\ \E o \in Outcomes :
        IF o = "ok"
        THEN /\ objects' = (req[r].archive_name :> req[r].q.file.data) @@ objects
             /\ Goto(r, "put_active", <<"put_archive">>)
        ELSE /\ Goto(r, "put_active", <<"put_archive">>)
             /\ UNCHANGED objects
    /\ UNCHANGED <<probe, uploads, slots, bucket, db, clock, started>>

\* service lines 154-168: the archive copy
PutArchive(r) ==
    /\ req[r].pc = "put_archive"
    /\ \E o \in Outcomes :
        IF o = "ok"
        THEN /\ objects' = (req[r].archive_name :> req[r].q.file.data) @@ objects
             /\ Goto(r, "put_active", <<"put_archive">>)
        ELSE /\ Finish(r, PutError("archive_write", "Error saving archive copy: "),
                       <<"put_archive">>)
             /\ UNCHANGED objects
    /\ UNCHANGED <<probe, uploads, slots, bucket, db, clock, started>>

\* PutActive with the archive copy removed again when the active write fails
PutActiveRollback(r) ==
    /\ req[r].pc = "put_active"
    /\ \E o \in Outcomes :
        IF o = "ok"
        THEN /\ objects' = (req[r].active_name :> req[r].q.file.data) @@ objects
             /\ req' = [req EXCEPT ![r].pc = "update",
                                   ![r].url = ProfileUrl(StrOfId(req[r].q.target)),
                                   ![r].trace = req[r].trace \o <<"put_active">>]
        ELSE /\ Finish(r, PutError("active_write", "Error saving active copy: "),
                       <<"put_active">>)
             /\ objects' = [n \in DOMAIN objects \ {req[r].archive_name} |-> objects[n]]
    /\ UNCHANGED <<probe, uploads, slots, bucket, db, clock, started>>

\* PutActive with a write that leaves an object that exists as it is
PutActiveIfAbsent(r) ==
    /\ req[r].pc = "put_active"
    /\ \E o \in Outcomes :
        IF o = "ok"
        THEN /\ objects' = objects @@ (req[r].active_name :> req[r].q.file.data)
             /\ req' = [req EXCEPT ![r].pc = "update",
                                   ![r].url = ProfileUrl(StrOfId(req[r].q.target)),
                                   ![r].trace = req[r].trace \o <<"put_active">>]
        ELSE /\ Finish(r, PutError("active_write", "Error saving active copy: "),
                       <<"put_active">>)
             /\ UNCHANGED objects
    /\ UNCHANGED <<probe, uploads, slots, bucket, db, clock, started>>

\* service lines 171-198: the active copy, then the URL
PutActive(r) ==
    /\ req[r].pc = "put_active"
    /\ \E o \in Outcomes :
        IF o = "ok"
        THEN /\ objects' = (req[r].active_name :> req[r].q.file.data) @@ objects
             /\ req' = [req EXCEPT ![r].pc = "update",
                                   ![r].url = ProfileUrl(StrOfId(req[r].q.target)),
                                   ![r].trace = req[r].trace \o <<"put_active">>]
        ELSE /\ Finish(r, PutError("active_write", "Error saving active copy: "),
                       <<"put_active">>)
             /\ UNCHANGED objects
    /\ UNCHANGED <<probe, uploads, slots, bucket, db, clock, started>>

\* what a 200 answer leaves behind of its request
Answered(rec) ==
    [user |-> rec.q.target, now |-> rec.now, data |-> rec.q.file.data,
     archive_name |-> rec.archive_name, active_name |-> rec.active_name]

\* Update answering 500 when the repository returns no record
UpdateNoneAsInternal(r) ==
    /\ req[r].pc = "update"
    /\ \E o \in {"ok", "none", "Error", "response_error"} :
        CASE o = "ok" ->
               /\ db' = [db EXCEPT ![req[r].q.target] = req[r].url]
               /\ Finish(r, Http(200, "", << >>), <<"update", "response">>)
               /\ uploads' = Append(uploads, Answered(req[r]))
          [] o = "response_error" ->
               /\ db' = [db EXCEPT ![req[r].q.target] = req[r].url]
               /\ Finish(r, Http(500, "response",
                                 <<Txt("Failed to create response: "), BackendText>>),
                         <<"update", "response">>)
               /\ UNCHANGED uploads
          [] OTHER ->
               /\ Finish(r, Http(500, IF o = "none" THEN "update_none" ELSE "db_update",
                                 <<Txt("Failed to update user profile with new picture. Please try again later.")>>),
                         <<"update">>)
               /\ UNCHANGED <<db, uploads>>
    /\ UNCHANGED <<probe, slots, bucket, objects, clock, started>>

\* routes lines 140-182: UserService.update, then the response
Update(r) ==
    /\ req[r].pc = "update"
    /\ \E o \in {"ok", "none", "Error", "response_error"} :
        CASE o = "ok" ->
               /\ db' = [db EXCEPT ![req[r].q.target] = req[r].url]
               /\ Finish(r, Http(200, "", << >>), <<"update", "response">>)
               /\ uploads' = Append(uploads, Answered(req[r]))
          [] o = "response_error" ->
               /\ db' = [db EXCEPT ![req[r].q.target] = req[r].url]
               /\ Finish(r, Http(500, "response",
                                 <<Txt("Failed to create response: "), BackendText>>),
                         <<"update", "response">>)
               /\ UNCHANGED uploads
          [] o = "none" ->
               /\ Finish(r, [NotFoundError EXCEPT !.cause = "update_none"], <<"update">>)
               /\ UNCHANGED <<db, uploads>>
          [] OTHER ->
               /\ Finish(r, Http(500, "db_update",
                                 <<Txt("Failed to update user profile with new picture. Please try again later.")>>),
                         <<"update">>)
               /\ UNCHANGED <<db, uploads>>
    /\ UNCHANGED <<probe, slots, bucket, objects, clock, started>>

\* time passes
Tick ==
    /\ clock < MaxClock
    /\ clock' = clock + 1
    /\ UNCHANGED <<probe, uploads, slots, req, bucket, objects, db, started>>

Next ==
    \/ \E r \in slots : Begin(r)
    \/ \E r \in slots : BucketExists(r)
    \/ \E r \in slots : MakeBucket(r)
    \/ \E r \in slots : ReadAndCheck(r)
    \/ \E r \in slots : PutArchive(r)
    \/ \E r \in slots : PutActive(r)
    \/ \E r \in slots : Update(r)
    \/ Tick

Spec == Init /\ [][Next]_vars

\* Two handler invocations at once, in one worker or in two, each handling
\* one request: they share the bucket and the database and nothing else, and
\* every call on the object store or on the database is one step.
InitConc ==
    /\ slots = {1, 2}
    /\ req = [r \in 1..2 |-> Idle]
    /\ bucket \in BOOLEAN
    /\ objects = << >>
    /\ db = [u \in ExistingUsers |-> NoUrl]
    /\ clock = 0
    /\ started = 0
    /\ uploads = << >>
    /\ probe = NoProbe

SpecConc == InitConc /\ [][Next]_vars

(* ------------------- listing and deleting stored pictures -------------- *)
\* the characters object names are made of, in code point order
Alphabet ==
    <<"-", ".", "/", "0", "1", "2", "3", "4", "5", "6", "7", "8", "9", "_",
      "a", "b", "c", "d", "e", "f", "g", "h", "i", "j", "k", "l", "m",
      "n", "o", "p", "q", "r", "s", "t", "u", "v", "w", "x", "y", "z">>

\* ord(c)
Ord(c) == CHOOSE i \in 1..Len(Alphabet) : Alphabet[i] = c

\* a < b on str: the first differing character decides, a proper prefix is
\* smaller
StrLess(a, b) ==
    \E i \in 1..Len(b) :
        /\ \A j \in 1..(i - 1) : j <= Len(a) /\ a[j] = b[j]
        /\ \/ i = Len(a) + 1
           \/ i <= Len(a) /\ Ord(a[i]) < Ord(b[i])

\* the characters of str(user_id)
IdChars(user_id) ==
    CASE user_id = "uuid-1" -> <<"u", "u", "i", "d", "-", "1">>
      [] user_id = "uuid-2" -> <<"u", "u", "i", "d", "-", "2">>
      [] user_id = "uuid-3" -> <<"u", "u", "i", "d", "-", "3">>
      [] OTHER -> << >>

\* the characters of a timestamp "%Y%m%d_%H%M%S", the clock being at most 9
\* seconds past 2026-11-02 00:00:00
TimestampChars(ts) ==
    <<"2", "0", "2", "6", "1", "1", "0", "2", "_", "0", "0", "0", "0", "0">>
      \o <<Alphabet[4 + ts]>>

\* the characters of the fixed parts of an object name
PartChars(part) ==
    CASE part = "profile_pictures" -> <<"p", "r", "o", "f", "i", "l", "e", "_", "p", "i", "c", "t", "u", "r", "e", "s">>
      [] part = "archive" -> <<"a", "r", "c", "h", "i", "v", "e">>
      [] part = "profile_" -> <<"p", "r", "o", "f", "i", "l", "e", "_">>
      [] part = "profile" -> <<"p", "r", "o", "f", "i", "l", "e">>
      [] OTHER -> << >>

\* the text of an object name: lines 90 and 94 of the service
ObjectName(n) ==
    IF n.root = "" THEN << >>
    ELSE PartChars(n.root) \o <<"/">> \o IdChars(n.user) \o <<"/">>
         \o (IF n.dir = "" THEN << >> ELSE PartChars(n.dir) \o <<"/">>)
         \o PartChars(n.stem)
         \o (IF n.ts < 0 THEN << >> ELSE TimestampChars(n.ts))
         \o n.ext

\* line 278: prefix = f"profile_pictures/{user_id}/"
ListPrefix(user_id) == <<"p", "r", "o", "f", "i", "l", "e", "_", "p", "i", "c", "t", "u", "r", "e", "s">> \o <<"/">> \o IdChars(user_id) \o <<"/">>

\* find_user_profile_pictures (lines 264-285): the names under the user's
\* prefix, or [] when listing raises
FindUserProfilePictures(content, user_id, outcome) ==
    IF outcome # "ok" THEN {}
    ELSE {n \in DOMAIN content : StartsWith(ObjectName(n), ListPrefix(user_id))}

\* get_latest_profile_picture (lines 244-262): the first name after
\* pictures.sort(reverse=True), or "" (NoName)
GetLatestProfilePicture(content, user_id, outcome) ==
    LET pictures == FindUserProfilePictures(content, user_id, outcome) IN
    IF pictures = {} THEN NoName
    ELSE CHOOSE n \in pictures :
             \A m \in pictures : ~StrLess(ObjectName(n), ObjectName(m))

\* delete_file (lines 287-307): what it returns or raises, and the bucket
\* content it leaves
DeleteFile(content, name, outcome) ==
    CASE outcome = "ok" ->
           [raised |-> "", returned |-> TRUE,
            content |-> [n \in DOMAIN content \ {name} |-> content[n]]]
      [] outcome = "S3Error" ->
           [raised |-> "", returned |-> FALSE, content |-> content]
      [] OTHER ->
           [raised |-> "Exception", returned |-> FALSE, content |-> content]

(* ----------------- calls of the verification token functions ---------- *)
\* the greatest expiration_hours passed, and the last hour the clock reaches
MaxHours == 2
MaxNow == 3

\* what secrets.token_urlsafe(16) yields
Secrets == {"s3cr3t", "t0k3n"}

\* a key a forged object leaves out
Absent == [type |-> "absent", s |-> PlainStr(""), n |-> 0]

\* the dict with the keys whose value is not Absent
Dict(token, expires) ==
    [k \in {key \in {"token", "expires"} :
               (IF key = "token" THEN token ELSE expires) # Absent}
        |-> IF k = "token" THEN token ELSE expires]

ForgedSecrets == {Absent, JString(PlainStr("")), JString(PlainStr("s3cr3t"))}

ForgedExpiries ==
    {Absent, JString(PlainStr("")), JString(PlainStr("tomorrow")), JInt(5),
     JString(IsoStr(1, TRUE, 0)), JString(IsoStr(3, TRUE, 2)),
     JString(IsoStr(3, FALSE, 0))}

\* the token strings a client sends that the server did not issue as they are
ForgedTokens ==
    {NotBase64, B64Encode(NotUtf8), B64Encode(NotJson),
     B64Encode(Dumps(JArray)), B64Encode(Dumps(JNumber)),
     B64Encode(Dumps(JObject("only_token" :> JString(PlainStr("value")))))}
    \cup {B64Encode(Dumps(JObject(Dict(t, e)))) : t \in ForgedSecrets, e \in ForgedExpiries}

StartProbe ==
    [pc |-> "start", now |-> 0, origin |-> "", token |-> NotBase64,
     hours |-> 0, issued_at |-> 0, secret |-> "", result |-> Raised("")]

InitToken ==
    /\ slots = {}
    /\ req = [r \in 1..2 |-> Idle]
    /\ bucket = FALSE
    /\ objects = << >>
    /\ db = [u \in ExistingUsers |-> NoUrl]
    /\ clock = 0
    /\ started = 0
    /\ uploads = << >>
    /\ probe = StartProbe

\* the server issues a token
Generate ==
    /\ probe.pc = "start"
    /\ \E h \in 1..MaxHours, secret \in Secrets :
        probe' = [probe EXCEPT !.pc = "issued", !.origin = "generated",
                               !.token = GenerateVerificationToken(h, probe.now, secret),
                               !.hours = h, !.issued_at = probe.now,
                               !.secret = secret]
    /\ UNCHANGED <<slots, req, bucket, objects, db, clock, started, uploads>>

\* a client sends a token of its own making
Receive ==
    /\ probe.pc = "start"
    /\ \E t \in ForgedTokens :
        probe' = [probe EXCEPT !.pc = "issued", !.origin = "received", !.token = t]
    /\ UNCHANGED <<slots, req, bucket, objects, db, clock, started, uploads>>

\* an hour passes
Advance ==
    /\ probe.pc \in {"start", "issued"}
    /\ probe.now < MaxNow
    /\ probe' = [probe EXCEPT !.now = probe.now + 1]
    /\ UNCHANGED <<slots, req, bucket, objects, db, clock, started, uploads>>

\* the token comes back and is verified
Verify ==
    /\ probe.pc = "issued"
    /\ probe' = [probe EXCEPT !.pc = "verified",
                              !.result = VerifyTokenExpiration(probe.token, probe.now)]
    /\ UNCHANGED <<slots, req, bucket, objects, db, clock, started, uploads>>

NextToken ==
    \/ Generate
    \/ Receive
    \/ Advance
    \/ Verify

SpecToken == InitToken /\ [][NextToken]_vars

(* ------------------------ calls of the image validator ---------------- *)
ValidatorFilenames ==
    Filenames \cup { <<"a", ".", "j", "p", "e", "g">>, <<"a", ".", "J", "P", "G">>,
                     <<"a", ".", "g", "i", "f">>, <<"a", ".", "b", "m", "p">>,
                     <<"a", ".", "p", "n", "g", ".", "j", "p", "g">> }

\* the files validate_image_file is called with
ValidatorFiles ==
    [filename : ValidatorFilenames, content_type : ContentTypes,
     data : ImagePayloads \cup {"empty", "text19"}]

InitValidator ==
    /\ slots = {}
    /\ req = [r \in 1..2 |-> Idle]
    /\ bucket = FALSE
    /\ objects = << >>
    /\ db = [u \in ExistingUsers |-> NoUrl]
    /\ clock = 0
    /\ started = 0
    /\ uploads = << >>
    /\ probe = [pc |-> "start", file |-> BaseFile, fault |-> "none",
                entry |-> 0, pos |-> 0,
                result |-> Reject(<< >>),
                ambient |-> [in_pytest |-> FALSE, test_mode |-> FALSE],
                outcome |-> Metadata(NoMetadata),
                twin_ambient |-> [in_pytest |-> FALSE, test_mode |-> FALSE],
                twin |-> Metadata(NoMetadata)]

\* the positions a caller leaves the stream cursor at before the call
EntryPositions == {0, 5}

\* a file arrives, its stream at some position
Submit ==
    /\ probe.pc = "start"
    /\ \E file \in ValidatorFiles, fault \in ValidatorFaults, pos \in EntryPositions :
        probe' = [probe EXCEPT !.pc = "submitted", !.file = file,
                               !.fault = fault, !.entry = pos, !.pos = pos]
    /\ UNCHANGED <<slots, req, bucket, objects, db, clock, started, uploads>>

\* validate_image_file(file), Pillow being installed
Validate ==
    /\ probe.pc = "submitted"
    /\ LET img == Decode(probe.file.data) IN
       probe' = [probe EXCEPT
                   !.pc = "validated",
                   !.result = ValidateImageFileFaulty(probe.file, img, probe.fault),
                   !.pos = ValidatorCursor(probe.file, img, probe.fault, probe.pos)]
    /\ UNCHANGED <<slots, req, bucket, objects, db, clock, started, uploads>>

\* validate_image_and_raise(file) in a process, and the same call in a
\* process with another ambient state
ValidateAndRaise ==
    /\ probe.pc = "submitted"
    /\ \E a, b \in Ambients :
        probe' = [probe EXCEPT
                    !.pc = "answered",
                    !.ambient = a,
                    !.outcome = ValidateImageAndRaise(probe.file, probe.fault, a),
                    !.twin_ambient = b,
                    !.twin = ValidateImageAndRaise(probe.file, probe.fault, b)]
    /\ UNCHANGED <<slots, req, bucket, objects, db, clock, started, uploads>>

NextValidator ==
    \/ Submit
    \/ Validate
    \/ ValidateAndRaise

SpecValidator == InitValidator /\ [][NextValidator]_vars

(* ------------------- calls of the stored-picture functions ------------- *)
\* the file names of the uploads that fill the bucket
StoredFilenames == {<<"a", ".", "j", "p", "g">>, <<"a", ".", "P", "N", "G">>}

\* the bytes of those uploads
StoredPayloads == {"jpeg", "png"}

\* the users the functions are called for
ListedUsers == {1, 2, 3}

NoCall ==
    [pc |-> "start", op |-> "", user |-> "", name |-> NoName, outcome |-> "",
     raised |-> "", returned |-> FALSE, pictures |-> {}, latest |-> NoName]

InitStore ==
    /\ slots = {}
    /\ req = [r \in 1..2 |-> Idle]
    /\ bucket = TRUE
    /\ objects = << >>
    /\ db = [u \in ExistingUsers |-> NoUrl]
    /\ clock = 0
    /\ started = 0
    /\ uploads = << >>
    /\ probe = NoCall

\* one upload that is answered 200, from lines 86-94 and 154-188 of the
\* service: the archive copy and the active copy are in the bucket
Stored ==
    /\ probe.pc = "start"
    /\ started < MaxUploads
    /\ \E u \in ExistingUsers, filename \in StoredFilenames, data \in StoredPayloads :
        LET ext == ServiceExtension(filename)
            archive_name == ArchiveName(StrOfId(u), Strftime(clock), ext)
            active_name == ActiveName(StrOfId(u), ext)
        IN /\ objects' = (active_name :> data) @@ (archive_name :> data) @@ objects
           /\ uploads' = Append(uploads,
                                [user |-> u, now |-> clock, data |-> data,
                                 archive_name |-> archive_name,
                                 active_name |-> active_name])
    /\ started' = started + 1
    /\ UNCHANGED <<probe, slots, req, bucket, db, clock>>

\* the names delete_file is called with: those in the bucket and one that is
\* not
DeletableNames == DOMAIN objects \cup {ArchiveName("uuid-3", 0, DotJpg)}

\* MinioService.delete_file(object_name)
CallDeleteFile ==
    /\ probe.pc = "start"
    /\ \E name \in DeletableNames, outcome \in {"ok", "S3Error", "Error"} :
        LET d == DeleteFile(objects, name, outcome) IN
        /\ objects' = d.content
        /\ probe' = [probe EXCEPT !.pc = "answered", !.op = "delete_file",
                                  !.name = name, !.outcome = outcome,
                                  !.raised = d.raised, !.returned = d.returned]
    /\ UNCHANGED <<slots, req, bucket, db, clock, started, uploads>>

\* MinioService.find_user_profile_pictures(user_id)
CallFindUserProfilePictures ==
    /\ probe.pc = "start"
    /\ \E u \in ListedUsers, outcome \in {"ok", "Error"} :
        probe' = [probe EXCEPT
                    !.pc = "answered", !.op = "find_user_profile_pictures",
                    !.user = StrOfId(u), !.outcome = outcome,
                    !.pictures = FindUserProfilePictures(objects, StrOfId(u), outcome)]
    /\ UNCHANGED <<slots, req, bucket, objects, db, clock, started, uploads>>

\* MinioService.get_latest_profile_picture(user_id)
CallGetLatestProfilePicture ==
    /\ probe.pc = "start"
    /\ \E u \in ListedUsers, outcome \in {"ok", "Error"} :
        probe' = [probe EXCEPT
                    !.pc = "answered", !.op = "get_latest_profile_picture",
                    !.user = StrOfId(u), !.outcome = outcome,
                    !.latest = GetLatestProfilePicture(objects, StrOfId(u), outcome)]
    /\ UNCHANGED <<slots, req, bucket, objects, db, clock, started, uploads>>

NextStore ==
    \/ Stored
    \/ Tick
    \/ CallDeleteFile
    \/ CallFindUserProfilePictures
    \/ CallGetLatestProfilePicture

SpecStore == InitStore /\ [][NextStore]_vars

(* ------------------------------ claims --------------------------------- *)
Has(trace, step) == \E i \in 1..Len(trace) : trace[i] = step

StorageSteps == {"bucket_exists", "make_bucket", "put_archive", "put_active"}

NoStorageCall(x) == \A i \in 1..Len(x.trace) : x.trace[i] \notin StorageSteps

\* the caller's role is ADMIN or MANAGER, or the caller's subject is the
\* target's id as a string or the target's e-mail address
CallerMayUpdate(x) ==
    \/ x.q.caller.role = "ADMIN"
    \/ x.q.caller.role = "MANAGER"
    \/ x.q.caller.user_id = StrOfId(x.q.target)
    \/ x.q.caller.user_id = EmailOf(x.q.target)

\* the requests of existing users that are in progress or answered, the
\* lookup having returned
Received(x) ==
    x.pc # "idle" /\ x.q.target \in ExistingUsers /\ x.cause # "unhandled"

\* this request has changed neither the object store nor the user records
Untouched(x) ==
    /\ bucket = x.before.bucket
    /\ objects = x.before.objects
    /\ db = x.before.db

\* C1: for an existing target the authorization step is passed exactly when
\* the caller is ADMIN or MANAGER or its subject is the target's id string or
\* e-mail; every other request ends in 403 with no storage call and no
\* user-record update.
C1_Authorization ==
    \A r \in slots :
        LET x == req[r] IN
        Received(x) =>
            /\ (Len(x.trace) > 2) <=> CallerMayUpdate(x)
            /\ ~CallerMayUpdate(x) =>
                   /\ x.pc = "done" /\ x.status = 403
                   /\ x.trace = <<"get_by_id", "authorize">>
                   /\ Untouched(x)

\* an ordinary caller whose subject is another user's id has been refused
C1_Witness ==
    \E r \in slots :
        /\ req[r].pc = "done" /\ req[r].status = 403
        /\ req[r].q.target = 1 /\ req[r].q.caller.user_id = "uuid-2"

\* C2: a request for a user id without a record ends in 404 whatever the
\* caller and the file, after the lookup alone: no authorization, no file
\* check, no storage call, no user-record update.
C2_NotFoundFirst ==
    \A r \in slots :
        LET x == req[r] IN
        (x.pc # "idle" /\ x.q.target \notin ExistingUsers /\ x.cause # "unhandled") =>
            /\ x.pc = "done" /\ x.status = 404
            /\ x.trace = <<"get_by_id">>
            /\ Untouched(x)

\* an elevated caller has been answered 404 for the user without a record
C2_Witness ==
    \E r \in slots :
        /\ req[r].pc = "done" /\ req[r].status = 404
        /\ req[r].q.target = 3 /\ req[r].q.caller.role = "ADMIN"

\* C3: an authorized upload whose content type does not start with
\* 'image/' ends in 400 before any call on the object store.
C3_ContentTypeBeforeStorage ==
    \A r \in slots :
        LET x == req[r]
            ct == x.q.file.content_type
        IN  (Received(x) /\ CallerMayUpdate(x) /\ (ct = << >> \/ ct[1] # "image/")) =>
                /\ x.pc = "done" /\ x.status = 400
                /\ NoStorageCall(x)
                /\ Untouched(x)

\* an authorized upload declared text/plain has been refused
C3_Witness ==
    \E r \in slots :
        /\ req[r].pc = "done" /\ req[r].status = 400
        /\ req[r].q.file.content_type = TextPlain
        /\ req[r].q.caller = SelfCaller /\ req[r].q.target = 1

\* the ways an upload fails validation: content type, filename, extension,
\* empty payload, oversized payload
ValidationCauses ==
    {"missing_content_type", "bad_content_type", "missing_filename",
     "bad_extension", "empty", "oversize"}

\* C4: an upload that ends in a validation failure leaves the object store
\* as it found it: no bucket created, no object written.
C4_ValidationLeavesStore ==
    \A r \in slots :
        LET x == req[r] IN
        (x.pc = "done" /\ x.cause \in ValidationCauses) =>
            /\ bucket = x.before.bucket
            /\ objects = x.before.objects

\* the filename ends, case-insensitively, in one of .jpg .jpeg .png .gif
EndsInAllowedExtension(filename) ==
    \E e \in {DotJpg, DotJpeg, DotPng, DotGif} : EndsWith(Lower(filename), e)

\* the message text contains the word t
Mentions(detail, t) == \E i \in 1..Len(detail) : detail[i] = t

\* C5: an authorized upload with an image content type and an allowed
\* extension whose payload is empty or longer than 5 MiB is answered 400,
\* with a reason that says 'empty', respectively gives the 5 MB limit.
C5_SizeRejectedAsBadRequest ==
    \A r \in slots :
        LET x == req[r]
            n == SizeOf(x.q.file.data)
        IN  (x.pc = "done" /\ Has(x.trace, "read")
             /\ x.q.file.content_type = ImageJpeg
             /\ x.q.file.filename = BaseFile.filename
             /\ (n = 0 \/ n > 5 * 1024 * 1024)) =>
                /\ x.status = 400
                /\ n = 0 => x.cause = "empty"
                /\ n > 0 => Mentions(x.detail, Txt("5MB"))

\* the reason names .jpg, .jpeg, .png and .gif
NamesEveryExtension(detail) ==
    \A e \in {DotJpg, DotJpeg, DotPng, DotGif} : Mentions(detail, e)

C7_ValidatorBeforeStore ==
    \A r \in slots :
        LET x == req[r] IN
        (Received(x) /\ CallerMayUpdate(x) /\ ~ValidateImageFile(x.q.file).valid) =>
            /\ ~Has(x.trace, "put_archive")
            /\ ~Has(x.trace, "put_active")
            /\ x.pc = "done" => x.status >= 400

\* the object `name` holds what it held when the request arrived
AsBefore(x, name) ==
    IF name \in DOMAIN x.before.objects
    THEN name \in DOMAIN objects /\ objects[name] = x.before.objects[name]
    ELSE name \notin DOMAIN objects

\* position of the step in the trace, 0 when it was not taken
StepAt(trace, step) ==
    IF Has(trace, step) THEN CHOOSE i \in 1..Len(trace) : trace[i] = step ELSE 0

\* C8: the active write is attempted only after the archive write has
\* succeeded, and a failed archive write leaves the active object unwritten.
C8_ArchiveThenActive ==
    \A r \in slots :
        LET x == req[r] IN
        /\ Has(x.trace, "put_active") =>
               /\ 0 < StepAt(x.trace, "put_archive")
               /\ StepAt(x.trace, "put_archive") < StepAt(x.trace, "put_active")
               /\ x.archive_name \in DOMAIN objects
               /\ objects[x.archive_name] = x.q.file.data
        /\ x.pc = "put_active" =>
               /\ x.archive_name \in DOMAIN objects
               /\ objects[x.archive_name] = x.q.file.data
        /\ (x.pc = "done" /\ x.cause = "archive_write") =>
               /\ ~Has(x.trace, "put_active")
               /\ AsBefore(x, x.active_name)

\* an upload has ended on a failed archive write
C8_Witness ==
    \E r \in slots : req[r].pc = "done" /\ req[r].cause = "archive_write"

\* C9: when the archive write succeeds and the active write fails, the
\* upload ends in 500, the archive object it wrote stays in the bucket and
\* the active object is as it was.
C9_OrphanedArchive ==
    \A r \in slots :
        LET x == req[r] IN
        (x.pc = "done" /\ x.cause = "active_write") =>
            /\ x.status = 500
            /\ x.archive_name \in DOMAIN objects
            /\ objects[x.archive_name] = x.q.file.data
            /\ AsBefore(x, x.active_name)

\* an upload has ended on a failed active write
C9_Witness ==
    \E r \in slots : req[r].pc = "done" /\ req[r].cause = "active_write"

\* C10: the user-record update is called only by an upload whose
\* authorization, file checks, archive write and active write have all
\* succeeded; on every other path the stored URLs are unchanged.
C10_UrlOnlyAfterFullPipeline ==
    \A r \in slots :
        LET x == req[r]
            f == x.q.file
        IN  /\ (x.pc = "update" \/ Has(x.trace, "update")) =>
                   /\ Received(x) /\ CallerMayUpdate(x)
                   /\ f.content_type # << >> /\ f.content_type[1] = "image/"
                   /\ f.filename # << >> /\ EndsInAllowedExtension(f.filename)
                   /\ 0 < SizeOf(f.data) /\ SizeOf(f.data) <= 5 * 1024 * 1024
                   /\ x.archive_name \in DOMAIN objects
                   /\ objects[x.archive_name] = f.data
                   /\ x.active_name \in DOMAIN objects
                   /\ objects[x.active_name] = f.data
            /\ (x.pc # "idle" /\ ~Has(x.trace, "update")) => db = x.before.db
            /\ (x.pc = "done" /\ (x.status \in {403, 400}
                                  \/ x.cause \in {"user_not_found", "storage_init",
                                                  "storage_unexpected",
                                                  "archive_write", "active_write"}
                                                  \cup ValidationCauses
                                                  \cup {"service_bad_extension"})) =>
                   ~Has(x.trace, "update") /\ db = x.before.db

\* an upload has run the whole pipeline and the record carries its URL
C10_Witness ==
    \E r \in slots :
        /\ req[r].pc = "done" /\ req[r].status = 200
        /\ db[req[r].q.target] = ProfileUrl(StrOfId(req[r].q.target))

\* both writes of this upload are in the bucket
BothCopiesWritten(x) ==
    /\ Has(x.trace, "put_archive") /\ Has(x.trace, "put_active")
    /\ x.archive_name \in DOMAIN objects /\ x.active_name \in DOMAIN objects

\* C11 as claimed: when both writes have succeeded and the repository's
\* update returns no record, the upload fails with 500.
C11_UpdateNoneIsInternalError ==
    \A r \in slots :
        (req[r].pc = "done" /\ req[r].cause = "update_none") => req[r].status = 500

\* C11 as amended: when both writes have succeeded and the repository's
\* update returns no record, the upload fails with 404 and the "User not
\* found" detail of the initial lookup; the stored URL is not changed.
C11_UpdateNoneIsNotFound ==
    \A r \in slots :
        LET x == req[r] IN
        (x.pc = "done" /\ x.cause = "update_none") =>
            /\ x.status = 404
            /\ Mentions(x.detail,
                   Txt("User not found. Please verify the user exists and try again."))
            /\ BothCopiesWritten(x)
            /\ db = x.before.db

\* an upload has written both copies and the update returned no record
C11_Witness ==
    \E r \in slots :
        /\ req[r].pc = "done" /\ req[r].cause = "update_none"
        /\ req[r].active_name \in DOMAIN objects

\* C12: no 500 response of the endpoint carries the text of the underlying
\* exception.
C12_InternalErrorsAreGeneric ==
    \A r \in slots :
        (req[r].pc = "done" /\ req[r].status = 500) =>
            ~Mentions(req[r].detail, BackendText)

\* C13: whatever raises at whatever stage, the handler ends in an HTTP
\* error response: no other exception leaves it.
C13_NothingEscapes ==
    \A r \in slots :
        req[r].pc = "done" => req[r].status \in {200, 400, 403, 404, 500}

\* C14: the uploads of one user answered 200 all wrote their active copy
\* under one object name, and two of them made at different timestamps
\* wrote their archive copies under two different object names.
C14_OneActiveNameManyArchiveNames ==
    \A i, j \in DOMAIN uploads :
        uploads[i].user = uploads[j].user =>
            /\ uploads[i].active_name = uploads[j].active_name
            /\ uploads[i].now # uploads[j].now =>
                   uploads[i].archive_name # uploads[j].archive_name

\* the archive objects of a user in a bucket content
ArchiveObjects(content, uid) ==
    {n \in DOMAIN content : n.user = uid /\ n.dir = "archive"}

\* the active objects of a user in a bucket content
ActiveObjects(content, uid) ==
    {n \in DOMAIN content : n.user = uid /\ n.dir = ""}

SameSecondArchive(x, n) ==
    /\ n.user = StrOfId(x.q.target) /\ n.dir = "archive"
    /\ n.ts = x.now
    /\ n.ext = Lower(SplitExt(x.q.file.filename))

C16_SingleActiveObject ==
    \A r \in slots :
        LET x == req[r]
            uid == StrOfId(x.q.target)
        IN  (x.pc = "done" /\ x.status = 200 /\ Len(uploads) = started) =>
                /\ Cardinality(ActiveObjects(objects, uid)) = 1
                /\ \A n \in ActiveObjects(objects, uid) : objects[n] = x.q.file.data

\* the step is request r's successful write of its bytes under name n
Lands(r, step, n) ==
    /\ req[r].pc = step /\ req'[r].pc # "done"
    /\ req'[r].trace = req[r].trace \o <<step>>
    /\ n \in DOMAIN objects' /\ objects'[n] = req[r].q.file.data

\* C17: among concurrent uploads every object, archive or active, and the
\* database URL hold what the last write to land for them wrote: a write
\* that lands replaces the content whatever it was, and nothing but a write
\* landing for that very object or field changes it.
C17_LastWriteWins ==
    [][ /\ \A r \in slots :
            /\ (req[r].pc = "put_archive" /\ req'[r].pc = "put_active")
                   => Lands(r, "put_archive", req[r].archive_name)
            /\ (req[r].pc = "put_active" /\ req'[r].pc = "update")
                   => Lands(r, "put_active", req[r].active_name)
            /\ (req[r].pc = "update" /\ req'[r].pc = "done"
                  /\ Has(req'[r].trace, "response"))
                   => db'[req[r].q.target] = req[r].url
        /\ \A n \in DOMAIN objects : n \in DOMAIN objects'
        /\ \A n \in DOMAIN objects' :
               (n \notin DOMAIN objects \/ objects'[n] # objects[n]) =>
                   \E r \in slots :
                       \/ n = req[r].archive_name /\ Lands(r, "put_archive", n)
                       \/ n = req[r].active_name /\ Lands(r, "put_active", n)
        /\ \A u \in ExistingUsers :
               db'[u] # db[u] =>
                   \E r \in slots :
                       /\ req[r].pc = "update" /\ req[r].q.target = u
                       /\ db'[u] = req[r].url
      ]_vars

\* two uploads of one user in one second, both answered 200: the archive
\* object holds the bytes of one and the active object those of the other
C17_Witness ==
    \E a, b \in slots :
        /\ a # b
        /\ req[a].pc = "done" /\ req[a].status = 200
        /\ req[b].pc = "done" /\ req[b].status = 200
        /\ req[a].q.target = req[b].q.target
        /\ req[a].archive_name = req[b].archive_name
        /\ req[a].active_name = req[b].active_name
        /\ req[a].q.file.data # req[b].q.file.data
        /\ objects[req[a].active_name] = req[a].q.file.data
        /\ objects[req[b].archive_name] = req[b].q.file.data
        /\ db[req[a].q.target] = req[b].url

\* the token has the shape generate_verification_token gives: base64 of the
\* JSON text of an object with a non-empty str under "token" and an ISO
\* time with a UTC offset under "expires"
WellFormedToken(token) ==
    /\ token.padded /\ token.bytes.utf8 /\ token.bytes.json
    /\ token.bytes.value.type = "dict"
    /\ {"token", "expires"} \subseteq DOMAIN token.bytes.value.fields
    /\ LET f == token.bytes.value.fields IN
       /\ f["token"].type = "str" /\ f["token"].s.kind = "text"
       /\ f["token"].s.text # ""
       /\ f["expires"].type = "str" /\ f["expires"].s.kind = "iso"
       /\ f["expires"].s.zone

\* C18: an issued token verifies as (True, secret) up to its expiry and as
\* (False, secret) after it, and a structurally invalid string verifies as
\* (False, "").
C18_RoundTrip ==
    probe.pc = "verified" =>
        /\ probe.origin = "generated" =>
               /\ probe.result.raised = ""
               /\ probe.result.valid = (probe.now <= probe.issued_at + probe.hours)
               /\ probe.result.token.type = "str"
               /\ probe.result.token.s.kind = "text"
               /\ probe.result.token.s.text = probe.secret
        /\ ~WellFormedToken(probe.token) =>
               /\ probe.result.raised = ""
               /\ ~probe.result.valid
               /\ probe.result.token.type = "str"
               /\ probe.result.token.s.kind = "text"
               /\ probe.result.token.s.text = ""

\* C19: verify_token_expiration raises on no input, and a token that is not
\* of the issued shape verifies with False as first component.
C19_NeverRaises ==
    probe.pc = "verified" =>
        /\ probe.result.raised = ""
        /\ ~WellFormedToken(probe.token) => ~probe.result.valid

\* the conditions under which C20 says a file is accepted
C20_Acceptable(file) ==
    LET name == Lower(file.filename)
        img == Decode(file.data)
        HasExt(e) == EndsWith(name, e)
    IN  /\ file.filename # << >>
        /\ file.content_type # << >>
        /\ file.content_type[1] = "image/"
        /\ HasExt(DotJpg) \/ HasExt(DotJpeg) \/ HasExt(DotPng) \/ HasExt(DotGif)
        /\ img.ok
        /\ img.width >= 10 /\ img.width <= 5000
        /\ img.height >= 10 /\ img.height <= 5000
        /\ \/ img.format = "JPEG" /\ (HasExt(DotJpg) \/ HasExt(DotJpeg))
           \/ img.format = "PNG" /\ HasExt(DotPng)
           \/ img.format = "GIF" /\ HasExt(DotGif)

C21_CursorRewound ==
    probe.pc = "validated" => probe.pos = 0

\* a rejection decided before the stream is read, the cursor having been
\* elsewhere on entry, and the cursor is at 0
C21_Witness ==
    /\ probe.pc = "validated"
    /\ probe.file.content_type # << >> /\ probe.file.content_type[1] # "image/"
    /\ ~probe.result.valid
    /\ probe.entry # 0 /\ probe.pos = 0

\* C22: the same file under two ambient process states (pytest loaded or
\* not, TEST_MODE set or not) gets the same outcome from
\* validate_image_and_raise.
C22_AmbientStateIsIgnored ==
    probe.pc = "answered" => probe.outcome = probe.twin

\* the file fails step 1 or step 2: no filename, no content type or one that
\* is no image type, an extension outside the allowed set
C23_FailsEarlySteps(file) ==
    \/ file.filename = << >>
    \/ file.content_type = << >>
    \/ file.content_type[1] # "image/"
    \/ \A e \in {DotJpg, DotJpeg, DotPng, DotGif} : ~EndsWith(Lower(file.filename), e)

\* C23: in bypass mode a file that fails step 1 or step 2 is rejected with
\* 400 and every other file is answered with the placeholder metadata.
C23_BypassSkipsOnlyDecodeSteps ==
    (probe.pc = "answered" /\ (probe.ambient.in_pytest \/ probe.ambient.test_mode)) =>
        IF C23_FailsEarlySteps(probe.file)
        THEN probe.outcome.status = 400
        ELSE /\ probe.outcome.status = 0
             /\ probe.outcome.metadata =
                    [format |-> "TEST", width |-> 100, height |-> 100, mode |-> "RGB"]

\* C24: during an upload the stream is read at most twice, and once the
\* storage service has returned or raised the cursor is at position 0.
C24_StreamRewound ==
    \A r \in slots :
        LET x == req[r] IN
        /\ x.reads <= 2
        /\ (Has(x.trace, "read") /\ x.pc \in {"update", "done"}) => x.pos = 0

\* C25: make_bucket is called only while the bucket does not exist, and an
\* upload that ends during bucket initialization ends with a 500 of the
\* storage initialization, no object having been written by it.
C25_CreateIfAbsent ==
    [][ \A r \in slots :
          /\ (req[r].pc = "make_bucket"
                /\ req'[r].trace = req[r].trace \o <<"make_bucket">>) => ~bucket
          /\ (req[r].pc \in {"bucket_exists", "make_bucket"} /\ req'[r].pc = "done") =>
                /\ req'[r].status = 500
                /\ req'[r].cause \in {"storage_init", "storage_unexpected"}
                /\ objects' = objects
                /\ \A i \in 1..Len(req'[r].trace) :
                       req'[r].trace[i] \notin {"put_archive", "put_active"}
      ]_vars

\* C26: delete_file returns True when the object was removed, and returns
\* False without raising whenever the removal fails, whatever the failure is.
C26_DeleteNeverRaises ==
    (probe.pc = "answered" /\ probe.op = "delete_file") =>
        /\ probe.raised = ""
        /\ probe.returned => probe.name \notin DOMAIN objects
        /\ probe.outcome # "ok" => ~probe.returned

\* the positions in the upload history of the uploads for a user
C28_UploadsOf(user_id) ==
    {i \in 1..Len(uploads) : StrOfId(uploads[i].user) = user_id}

\* C28: get_latest_profile_picture(user) returns a name written by the user's
\* most recent upload, and the empty string when the user has no stored
\* picture or listing fails.
C28_LatestIsMostRecentUpload ==
    (probe.pc = "answered" /\ probe.op = "get_latest_profile_picture") =>
        LET mine == C28_UploadsOf(probe.user) IN
        IF mine = {} \/ probe.outcome # "ok"
        THEN probe.latest = NoName
        ELSE LET last == uploads[CHOOSE i \in mine : \A j \in mine : j <= i] IN
             probe.latest \in {last.archive_name, last.active_name}

C29_ExtensionChecksAgree ==
    \A r \in slots :
        LET x == req[r]
            filename == x.q.file.filename
            endpoint == RouterExtensionOk(filename)
            service == ServiceExtension(filename) \in SeqToSet(ServiceValidExtensions)
            validator == ValidatorExt(filename) \in SeqToSet(ALLOWED_EXTENSIONS)
        IN  (x.pc # "idle" /\ filename # NoFilename) =>
                /\ endpoint <=> service
                /\ service <=> validator
                /\ x.cause # "service_bad_extension"

\* the text "profile_pictures/U/" for the user with id u
C30_Prefix(u) ==
    <<"p", "r", "o", "f", "i", "l", "e", "_", "p", "i", "c", "t", "u", "r", "e", "s", "/",
      "u", "u", "i", "d", "-">> \o <<(<<"1", "2", "3">>)[u]>> \o <<"/">>

\* C30: every object an upload for user U creates or overwrites has a name
\* starting with "profile_pictures/U/", no upload removes an object, and
\* find_user_profile_pictures(V) for another user V does not return it.
C30_WritesStayUnderOwnPrefix ==
    [][ /\ \A n \in DOMAIN objects : n \in DOMAIN objects'
        /\ \A n \in DOMAIN objects' :
               (n \notin DOMAIN objects \/ objects'[n] # objects[n]) =>
                   \E r \in slots :
                       /\ req[r].pc \in {"put_archive", "put_active"}
                       /\ req'[r] # req[r]
                       /\ LET name == ObjectName(n)
                              prefix == C30_Prefix(req[r].q.target)
                          IN /\ Len(name) > Len(prefix)
                             /\ \A i \in 1..Len(prefix) : name[i] = prefix[i]
                       /\ \A v \in {1, 2, 3} \ {req[r].q.target} :
                              n \notin FindUserProfilePictures(objects', StrOfId(v), "ok")
      ]_vars

\* two uploads at once for two users have both written their copies:
\* listing one user's pictures returns that user's objects and none of the
\* other's
C30_Witness ==
    \E a, b \in slots :
        /\ req[a].q.target = 1 /\ req[b].q.target = 2
        /\ req[a].pc = "update" /\ req[b].pc = "update"
        /\ req[a].active_name \in FindUserProfilePictures(objects, "uuid-1", "ok")
        /\ req[b].active_name \in FindUserProfilePictures(objects, "uuid-2", "ok")
        /\ req[a].archive_name \notin FindUserProfilePictures(objects, "uuid-2", "ok")
        /\ req[b].archive_name \notin FindUserProfilePictures(objects, "uuid-1", "ok")

====
